---- MODULE Spec2Model ----
(***************************************************************************)
(* Route finder, route guides and recent-routes store of the metro planner *)
(* (src/lib/route-finder.ts, src/lib/route-guides.ts,                      *)
(* src/lib/stores/recent-routes.ts).                                       *)
(*                                                                         *)
(* findRoutes is a function of (graph, stations, from, to, maxRoutes).     *)
(* The static dataset (graph, stations) is drawn by Init from a bounded    *)
(* family of datasets; the action FindRoutes applies the function to       *)
(* arguments drawn from the ids of the dataset and records the returned    *)
(* array.  SpecRepeat makes several calls in a row on one dataset.         *)
(*                                                                         *)
(* getLineTerminal and the two guide functions read the paths of their     *)
(* module and their arguments; SpecTerminal and SpecGuide draw paths from  *)
(* bounded families and apply the functions.                               *)
(*                                                                         *)
(* The recent-routes store holds the list routes; SpecRecent starts from a *)
(* list the store persisted earlier and makes calls of addRoute,           *)
(* incrementCount, removeRoute and clearRoutes.  Date.now() is read from a *)
(* clock that does not run backwards.                                      *)
(*                                                                         *)
(* Encoding of the JavaScript values:                                      *)
(*   - station and line ids are strings, '' is the empty string "";        *)
(*   - an array is a sequence, a Set<string> is a set;                     *)
(*   - Graph is a function from the ids that have an entry to their edge   *)
(*     arrays; an edge is [to, line] (from and weight are never read by    *)
(*     findRoutes);                                                        *)
(*   - StationsMap is a function from the ids that have an entry to        *)
(*     station records [id, lines] (only these two fields are read);       *)
(*   - PathsMap and LinesMap are functions from the line ids that have an  *)
(*     entry to their records;                                             *)
(*   - the optional field transferTo holds Undefined when it is not set;   *)
(*   - an omitted maxRoutes argument is [omitted |-> TRUE, value |-> 0].   *)
(***************************************************************************)
EXTENDS Integers, Sequences, FiniteSets, TLC

VARIABLES
    graph,      \* the Graph handed to findRoutes
    stations,   \* the StationsMap handed to findRoutes
    pc,         \* "idle" before the first call, "returned" after a call
    call,       \* arguments of the last call: [from, to, maxRoutes]
    result,     \* the array returned by the last call
    earlier,    \* the calls before the last one: [call, result] of each
    paths,      \* the PathsMap of route-guides.ts (data/paths.json)
    guideCall,  \* the last call of a function of route-guides.ts
    guideResult, \* the string that call returned
    routes,     \* state.routes of the recent-routes store
    now,        \* the last value read from Date.now()
    storeCall,  \* the last call of the store, with state.routes before it
    storeCalls  \* the number of calls of the store made so far

vars == <<graph, stations, pc, call, result, earlier, paths, guideCall, guideResult,
          routes, now, storeCall, storeCalls>>

\* the variables of the recent-routes store
storeVars == <<routes, now, storeCall, storeCalls>>

---------------------------------------------------------------------------
(* Bounds of the model *)

\* total number of edges of a dataset of the small family
MaxEdges == 3
\* largest explicit maxRoutes argument (the smallest is -1)
MaxRoutesArg == 1
\* number of calls made one after the other on one dataset
MaxCalls == 3
\* largest number of paths declared for a line
MaxPaths == 2
\* largest number of steps of a route handed to a guide function
MaxSteps == 2
\* largest number of addRoute calls behind the list the store starts with
MaxStored == 10
\* number of calls of the store made on that list
MaxStoreCalls == 2

(* Constants of the program *)

\* maxRoutes: number = 5
DefaultMaxRoutes == 5
\* path.length > 30
MaxPathLength == 30
\* transfers > 4
MaxTransfers == 4

Undefined == "undefined"

---------------------------------------------------------------------------
(* Helpers on sequences *)

Range(s) == {s[i] : i \in 1..Len(s)}

Last(s) == s[Len(s)]

Max(a, b) == IF a > b THEN a ELSE b

Min(a, b) == IF a < b THEN a ELSE b

\* Array.prototype.slice(start, end) with 0-based start, end; negative end
\* counts from the back of the array
Slice(s, start, end) ==
    LET len == Len(s)
        k   == IF start < 0 THEN Max(len + start, 0) ELSE Min(start, len)
        fin == IF end < 0 THEN Max(len + end, 0) ELSE Min(end, len)
    IN  IF fin <= k THEN <<>> ELSE SubSeq(s, k + 1, fin)

\* Array.prototype.findIndex(e => e === x), 1-based; 0 when x is not in s
FirstIndex(s, x) ==
    IF \E i \in 1..Len(s) : s[i] = x
    THEN CHOOSE i \in 1..Len(s) : s[i] = x /\ \A j \in 1..(i - 1) : s[j] # x
    ELSE 0

\* Array.prototype.join(sep) on an array of strings
RECURSIVE Join(_, _)
Join(s, sep) ==
    IF Len(s) = 0 THEN ""
    ELSE IF Len(s) = 1 THEN s[1]
    ELSE Join(SubSeq(s, 1, Len(s) - 1), sep) \o sep \o s[Len(s)]

\* the elements of s at the indices in keep, in the order of s
AtIndices(s, keep) ==
    [k \in 1..Cardinality(keep) |->
        s[CHOOSE i \in keep : Cardinality({j \in keep : j < i}) = k - 1]]

\* Array.from(new Set(s)): the distinct elements in order of first appearance
Distinct(s) ==
    AtIndices(s, {i \in 1..Len(s) : \A j \in 1..(i - 1) : s[j] # s[i]})

---------------------------------------------------------------------------
(* findRoutes *)

\* graph[current] || []
EdgesOf(g, s) == IF s \in DOMAIN g THEN g[s] ELSE <<>>

\* stations[id] is truthy
HasStation(st, id) == id \in DOMAIN st

\* station.lines?.[0] || ''
FirstLine(station) == IF Len(station.lines) > 0 THEN station.lines[1] ELSE ""

\* graph[path[i - 1]]?.find(e => e.to === stationId)?.line, "" when there is
\* no such edge
FoundEdgeLine(g, prev, stationId) ==
    LET edges == EdgesOf(g, prev)
        k     == FirstIndex([i \in 1..Len(edges) |-> edges[i].to], stationId)
    IN  IF k = 0 THEN "" ELSE edges[k].line

\* the line of step i of the path: the edge found from the previous station,
\* else the station's first line, else ''
StepLine(g, st, path, i) ==
    LET fromEdge == IF i > 1 THEN FoundEdgeLine(g, path[i - 1], path[i]) ELSE ""
    IN  IF fromEdge # "" THEN fromEdge ELSE FirstLine(st[path[i]])

\* the loop that builds the steps of a found path: a path entry without a
\* station record is skipped (continue), and prevLine is the line of the step
\* pushed before.  followed[i] is the line of the edge the search followed
\* into path[i] ("" for the origin); it is kept in the field via, which the
\* program does not have, to state what the search did.
BuildSteps(g, st, path, followed) ==
    LET kept == SelectSeq([i \in 1..Len(path) |-> i], LAMBDA i : HasStation(st, path[i]))
    IN  [k \in 1..Len(kept) |->
            LET i          == kept[k]
                line       == StepLine(g, st, path, i)
                prevLine   == IF k = 1 THEN "" ELSE StepLine(g, st, path, kept[k - 1])
                isTransfer == line # prevLine /\ prevLine # ""
            IN  [stationId  |-> path[i],
                 station    |-> st[path[i]],
                 line       |-> line,
                 isTransfer |-> isTransfer,
                 transferTo |-> IF isTransfer THEN line ELSE Undefined,
                 via        |-> followed[i]]]

\* the lines of the steps without the Set: a line is listed once per step
UniqueLines_NoSet(steps) ==
    SelectSeq([i \in 1..Len(steps) |-> steps[i].line], LAMBDA l : l # "")

\* Array.from(new Set(steps.map(s => s.line).filter(Boolean)))
UniqueLines(steps) ==
    Distinct(SelectSeq([i \in 1..Len(steps) |-> steps[i].line], LAMBDA l : l # ""))

\* the RouteResult pushed for a path that reached the target
BuildRoute(g, st, path, followed) ==
    LET steps       == BuildSteps(g, st, path, followed)
        uniqueLines == UniqueLines(steps)
    IN  [steps          |-> steps,
         totalStations  |-> Len(path),
         totalTransfers |-> Len(uniqueLines) - 1,
         lines          |-> uniqueLines]

\* the edges are tried in the order of the edge array
SortedEdges_GraphOrder(edges, currentLine) == edges

\* [...edges].sort(...): the edges on the current line first, each group in
\* the order of the edge array (the sort is stable and its keys are 0 and 1)
SortedEdges(edges, currentLine) ==
    SelectSeq(edges, LAMBDA e : e.line = currentLine)
        \o SelectSeq(edges, LAMBDA e : e.line # currentLine)

\* currentLine && edge.line !== currentLine ? transfers + 1 : transfers
NewTransfers(edge, currentLine, transfers) ==
    IF currentLine # "" /\ edge.line # currentLine THEN transfers + 1 ELSE transfers

\* path.length > 30 || transfers > 4
TooLong(path, transfers) == Len(path) > MaxPathLength \/ transfers > MaxTransfers

\* the test for the station record is left out
Unvisited_AnyStation(st, visited, edge) == edge.to \notin visited

\* !visited.has(edge.to) && stations[edge.to]
Unvisited(st, visited, edge) == edge.to \notin visited /\ HasStation(st, edge.to)

\* edge.line !== currentLine ? [...lines, edge.line] : lines
NewLines(edge, currentLine, lines) ==
    IF edge.line # currentLine THEN Append(lines, edge.line) ELSE lines

\* the edges the for loop of findAllPaths follows, in the order of the loop:
\* the sorted edges that pass the test of line 79 (visited and stations do
\* not change while the loop runs)
OpenEdges(g, st, current, currentLine, visited) ==
    SelectSeq(SortedEdges(EdgesOf(g, current), currentLine),
              LAMBDA edge : Unvisited(st, visited, edge))

\* findAllPaths: the routes it pushes to allRoutes, in the order of the pushes.
\* FindAllPaths(..., 1) is the call; FindAllPaths(..., k) is the rest of the
\* call from the k-th edge the loop follows on.  followed grows with path,
\* one entry for each entry of path.
RECURSIVE FindAllPaths(_, _, _, _, _, _, _, _, _, _, _)
FindAllPaths(g, st, current, target, visited, path, lines, currentLine, transfers, followed, k) ==
    LET open   == OpenEdges(g, st, current, currentLine, visited)
        pruned == TooLong(path, transfers) \/ Len(followed) # Len(path)
    IN  CASE k = 1 /\ current = target -> <<BuildRoute(g, st, path, followed)>>
          [] k = 1 /\ current # target /\ pruned -> <<>>
          [] (k > 1 \/ (current # target /\ ~pruned)) /\ k > Len(open) -> <<>>
          [] OTHER ->
                FindAllPaths(g, st, open[k].to, target,
                             visited \cup {open[k].to},
                             Append(path, open[k].to),
                             NewLines(open[k], currentLine, lines),
                             open[k].line,
                             NewTransfers(open[k], currentLine, transfers),
                             Append(followed, open[k].line),
                             1)
                \o FindAllPaths(g, st, current, target, visited, path, lines,
                                currentLine, transfers, followed, k + 1)

\* the origin is left out of the visited set
InitialVisited_Empty(from) == {}

\* const initialVisited = new Set<string>([from])
InitialVisited(from) == {from}

\* firstStation?.lines?.[0] || ''
InitialLine(st, from) == IF HasStation(st, from) THEN FirstLine(st[from]) ELSE ""

\* route.steps.map(s => s.stationId).join('-')
PathKey(route) ==
    Join([i \in 1..Len(route.steps) |-> route.steps[i].stationId], "-")

\* the filter keeps every route
UniqueRoutes_KeepAll(found) == found

\* allRoutes.filter((route, index, self) => index === self.findIndex(same key))
UniqueRoutes(found) ==
    LET keys == [i \in 1..Len(found) |-> PathKey(found[i])]
    IN  AtIndices(found, {i \in 1..Len(found) : i = FirstIndex(keys, keys[i])})

\* the comparator looks at the number of stations only
RouteLess_StationsOnly(a, b) == a.totalStations - b.totalStations < 0

\* the comparator of uniqueRoutes.sort: a negative result
RouteLess(a, b) ==
    IF a.totalTransfers # b.totalTransfers
    THEN a.totalTransfers - b.totalTransfers < 0
    ELSE a.totalStations - b.totalStations < 0

\* uniqueRoutes.sort(cmp): Array.prototype.sort is stable, so a route comes
\* behind the routes that compare smaller and behind the earlier routes that
\* compare equal
SortRoutes(s) ==
    LET before(j, i) == RouteLess(s[j], s[i]) \/ (~RouteLess(s[i], s[j]) /\ j < i)
        rank(i)      == Cardinality({j \in 1..Len(s) : before(j, i)})
    IN  [k \in 1..Len(s) |-> s[CHOOSE i \in 1..Len(s) : rank(i) = k - 1]]

\* the array outlives the call: a call starts with the routes of the call
\* before in it
NewAllRoutes_Shared == result

\* const allRoutes: RouteResult[] = []
NewAllRoutes == <<>>

\* allRoutes after the search started at line 103: the routes pushed, in the
\* order of the pushes
AllRoutes(g, st, from, to) ==
    LET initialLine == InitialLine(st, from)
    IN  NewAllRoutes
            \o FindAllPaths(g, st, from, to, InitialVisited(from), <<from>>,
                            <<initialLine>>, initialLine, 0, <<"">>, 1)

\* uniqueRoutes after the filter and the sort
RankedRoutes(g, st, from, to) ==
    SortRoutes(UniqueRoutes(AllRoutes(g, st, from, to)))

\* the value of the parameter maxRoutes: number = 5
MaxRoutesParam(arg) == IF arg.omitted THEN DefaultMaxRoutes ELSE arg.value

\* the whole array is returned
TopRoutes_All(found, maxRoutes) == found

\* uniqueRoutes.slice(0, maxRoutes)
TopRoutes(found, maxRoutes) == Slice(found, 0, maxRoutes)

\* the sort of line 72 is done on graph[current] itself: the edge array of
\* the origin, the first station expanded, is left in same-line-first order
GraphAfter_SortInPlace(g, st, from, to) ==
    IF from # to /\ from \in DOMAIN g
    THEN [g EXCEPT ![from] = SortedEdges(g[from], InitialLine(st, from))]
    ELSE g

\* the graph after a call: findRoutes assigns to no entry of graph and to no
\* edge, and sorts a copy of the edge array ([...edges].sort)
GraphAfter(g, st, from, to) == g

\* the search runs also when from === to
findRoutes_NoSelfCheck(g, st, from, to, arg) ==
    TopRoutes(RankedRoutes(g, st, from, to), MaxRoutesParam(arg))

findRoutes(g, st, from, to, arg) ==
    IF from = to THEN <<>>
    ELSE TopRoutes(RankedRoutes(g, st, from, to), MaxRoutesParam(arg))

---------------------------------------------------------------------------
(* route-guides.ts *)

\* Array.prototype.indexOf: 0-based, -1 when x is not in s
IndexOf(s, x) == FirstIndex(s, x) - 1

\* the answer comes from the last path that contains both stations
getLineTerminal_LastPath(p, line, startStationId, nextStationId) ==
    IF line \notin DOMAIN p THEN ""
    ELSE LET linePaths == p[line].paths
             both == {k \in 1..Len(linePaths) :
                         /\ IndexOf(linePaths[k].stations, startStationId) # -1
                         /\ IndexOf(linePaths[k].stations, nextStationId) # -1}
         IN  IF both = {} THEN ""
             ELSE LET path == linePaths[CHOOSE k \in both : \A j \in both : j <= k]
                  IN  IF IndexOf(path.stations, nextStationId)
                             > IndexOf(path.stations, startStationId)
                      THEN path.to ELSE path.from

\* a line whose paths do not contain both stations answers with the terminal
\* of its first path
getLineTerminal_FirstPathIfNone(p, line, startStationId, nextStationId) ==
    IF line \notin DOMAIN p THEN ""
    ELSE LET linePaths == p[line].paths
             both == {k \in 1..Len(linePaths) :
                         /\ IndexOf(linePaths[k].stations, startStationId) # -1
                         /\ IndexOf(linePaths[k].stations, nextStationId) # -1}
         IN  IF both = {} THEN (IF Len(linePaths) = 0 THEN "" ELSE linePaths[1].to)
             ELSE LET path == linePaths[CHOOSE k \in both : \A j \in both : k <= j]
                  IN  IF IndexOf(path.stations, nextStationId)
                             > IndexOf(path.stations, startStationId)
                      THEN path.to ELSE path.from

\* getLineTerminal, p being the constant paths of the module: the for loop
\* returns at the first path in which both indexOf are not -1
getLineTerminal(p, line, startStationId, nextStationId) ==
    IF line \notin DOMAIN p THEN ""
    ELSE LET linePaths == p[line].paths
             both == {k \in 1..Len(linePaths) :
                         /\ IndexOf(linePaths[k].stations, startStationId) # -1
                         /\ IndexOf(linePaths[k].stations, nextStationId) # -1}
         IN  IF both = {} THEN ""
             ELSE LET path == linePaths[CHOOSE k \in both : \A j \in both : k <= j]
                  IN  IF IndexOf(path.stations, nextStationId)
                             > IndexOf(path.stations, startStationId)
                      THEN path.to ELSE path.from

\* currentStep.transferTo is truthy
HasTransferTo(step) == step.transferTo # Undefined /\ step.transferTo # ""

\* lines[lineId]?.name[lang] || lineId
LineName(lines, lineId, lang) ==
    IF lineId \in DOMAIN lines /\ lines[lineId].name[lang] # ""
    THEN lines[lineId].name[lang]
    ELSE lineId

\* getStationDisplay(id), the callback of the callers: the name of the station
\* in the language of the page, the id itself for an id without station
StationDisplay(names, id) == IF id \in DOMAIN names THEN names[id] ELSE id

\* the template strings of lines 79-81; the Persian words of the 'fa' text are
\* written in Latin letters
TransferText(lang, stationName, toLine, terminalName) ==
    IF lang = "fa"
    THEN "dar istgah-e " \o stationName \o " piyade shavid va be samt-e "
             \o toLine \o " " \o terminalName \o " beravid"
    ELSE "At " \o stationName \o " station, transfer to "
             \o toLine \o " towards " \o terminalName

\* the terminal is looked up from the next step's station back to this one
getTransferGuide_TerminalBackwards(p, route, transferIndex, lines, lang, names) ==
    IF transferIndex >= Len(route.steps) - 1 THEN ""
    ELSE LET currentStep == route.steps[transferIndex + 1]
             nextStep    == route.steps[transferIndex + 2]
         IN  IF ~HasTransferTo(currentStep) THEN ""
             ELSE TransferText(lang,
                               StationDisplay(names, currentStep.stationId),
                               LineName(lines, currentStep.transferTo, lang),
                               StationDisplay(names,
                                   getLineTerminal(p, currentStep.transferTo,
                                                   nextStep.stationId, currentStep.stationId)))

\* getTransferGuide, p being the constant paths of the module and names the
\* table behind the callback getStationDisplay; transferIndex is 0-based
getTransferGuide(p, route, transferIndex, lines, lang, names) ==
    IF transferIndex >= Len(route.steps) - 1 THEN ""
    ELSE LET currentStep == route.steps[transferIndex + 1]
             nextStep    == route.steps[transferIndex + 2]
         IN  IF ~HasTransferTo(currentStep) THEN ""
             ELSE TransferText(lang,
                               StationDisplay(names, currentStep.stationId),
                               LineName(lines, currentStep.transferTo, lang),
                               StationDisplay(names,
                                   getLineTerminal(p, currentStep.transferTo,
                                                   currentStep.stationId, nextStep.stationId)))

\* the loop of lines 39-43: the station of the last step before the first
\* step on another line
LastStationOnLine(steps, lineId) ==
    LET other == {k \in 1..Len(steps) : steps[k].line # lineId}
        n     == IF other = {} THEN Len(steps)
                 ELSE (CHOOSE k \in other : \A j \in other : k <= j) - 1
    IN  IF n = 0 THEN steps[1].stationId ELSE steps[n].stationId

\* the template strings of lines 54-56; the Persian words of the 'fa' text
\* are written in Latin letters
FirstStepText(lang, stationName, lineName, terminalName) ==
    IF lang = "fa"
    THEN "az istgah-e " \o stationName \o " savar-e " \o lineName
             \o " be samt-e " \o terminalName \o " shavid"
    ELSE "Board " \o lineName \o " at " \o stationName
             \o " station towards " \o terminalName

\* the terminal is looked up towards the last step of the route, whatever
\* its line
getFirstStepGuide_LastStep(p, route, lines, lang, names) ==
    IF Len(route.steps) = 0 THEN ""
    ELSE LET firstStep == route.steps[1]
             lineId    == firstStep.line
             terminal  == getLineTerminal(p, lineId, firstStep.stationId,
                                          Last(route.steps).stationId)
         IN  FirstStepText(lang,
                           StationDisplay(names, firstStep.stationId),
                           LineName(lines, lineId, lang),
                           StationDisplay(names, terminal))

\* getFirstStepGuide, p being the constant paths of the module and names the
\* table behind the callback getStationDisplay
getFirstStepGuide(p, route, lines, lang, names) ==
    IF Len(route.steps) = 0 THEN ""
    ELSE LET firstStep == route.steps[1]
             lineId    == firstStep.line
             terminal  == getLineTerminal(p, lineId, firstStep.stationId,
                                          LastStationOnLine(route.steps, lineId))
         IN  FirstStepText(lang,
                           StationDisplay(names, firstStep.stationId),
                           LineName(lines, lineId, lang),
                           StationDisplay(names, terminal))

---------------------------------------------------------------------------
(* The datasets *)

SmallStations == <<"a", "b", "c">>

LineIds == {"L1", "L2"}

Id(prefix, i) == prefix \o ToString(i)

\* the arrays of at most k distinct edges from station s to other stations of ids
RECURSIVE EdgeLists(_, _, _)
EdgeLists(s, ids, k) ==
    IF k = 0 THEN {<<>>}
    ELSE LET shorter == EdgeLists(s, ids, k - 1)
             edges   == {[to |-> t, line |-> l] : t \in ids \ {s}, l \in LineIds}
         IN  shorter \cup UNION {{Append(es, e) : e \in edges \ Range(es)} :
                                    es \in {x \in shorter : Len(x) = k - 1}}

\* the graphs over the first n stations of ss with at most budget edges in all;
\* a station without an edge has no entry
RECURSIVE GraphsOver(_, _, _)
GraphsOver(ss, n, budget) ==
    IF n = 0 THEN {<<>>}
    ELSE UNION {{IF Len(es) = 0 THEN g ELSE g @@ (ss[n] :> es) :
                     g \in GraphsOver(ss, n - 1, budget - Len(es))} :
                es \in EdgeLists(ss[n], Range(ss), budget)}

\* the arrays station.lines: no line, or one line
LineLists == {<<>>} \cup {<<l>> : l \in LineIds}

StationsOf(ids, lineList) == [s \in ids |-> [id |-> s, lines |-> lineList]]

\* every station has a record, or all but one have
StationMaps(ids) ==
    {StationsOf(ids \ absent, ls) : absent \in {{}} \cup {{s} : s \in ids}, ls \in LineLists}

SmallDatasets ==
    {[graph |-> g, stations |-> st] :
        g \in GraphsOver(SmallStations, Len(SmallStations), MaxEdges),
        st \in StationMaps(Range(SmallStations))}

\* one line of n stations, an edge in each direction between neighbours: two
\* stations more than the search lets a path have
LongLine(n) ==
    [s \in {Id("c", i) : i \in 1..n} |->
        LET i == CHOOSE j \in 1..n : s = Id("c", j)
        IN  (IF i < n THEN <<[to |-> Id("c", i + 1), line |-> "L1"]>> ELSE <<>>)
            \o (IF i > 1 THEN <<[to |-> Id("c", i - 1), line |-> "L1"]>> ELSE <<>>)]

\* n stations in a row, every hop on a line of its own
LineChanges(n) ==
    [s \in {Id("t", i) : i \in 1..(n - 1)} |->
        LET i == CHOOSE j \in 1..n : s = Id("t", j)
        IN  <<[to |-> Id("t", i + 1), line |-> Id("L", i)]>>]

\* n stations, an edge from each to every other on one line
Dense(n) ==
    [s \in {Id("d", i) : i \in 1..n} |->
        LET i == CHOOSE j \in 1..n : s = Id("d", j)
            RECURSIVE To(_)
            To(j) == IF j > n THEN <<>>
                     ELSE (IF j = i THEN <<>> ELSE <<[to |-> Id("d", j), line |-> "L1"]>>)
                          \o To(j + 1)
        IN  To(1)]

\* two branches from "o" to "s", one of two hops and one of three, every hop
\* on a line of LineIds, the two edges of "o" in either order
BranchGraphs ==
    {[o |-> IF shortFirst
            THEN <<[to |-> "p", line |-> l[1]], [to |-> "q", line |-> l[3]]>>
            ELSE <<[to |-> "q", line |-> l[3]], [to |-> "p", line |-> l[1]]>>,
      p |-> <<[to |-> "s", line |-> l[2]]>>,
      q |-> <<[to |-> "r", line |-> l[4]]>>,
      r |-> <<[to |-> "s", line |-> l[5]]>>] :
        l \in [1..5 -> LineIds], shortFirst \in BOOLEAN}

\* two branches of two hops from "o" to "s", every hop on a line of LineIds
DiamondGraphs ==
    {[o |-> <<[to |-> "p", line |-> l[1]], [to |-> "q", line |-> l[2]]>>,
      p |-> <<[to |-> "s", line |-> l[3]]>>,
      q |-> <<[to |-> "s", line |-> l[4]]>>] :
        l \in [1..4 -> LineIds]}

\* the ids a graph names
GraphIds(g) == DOMAIN g \cup UNION {{g[s][i].to : i \in 1..Len(g[s])} : s \in DOMAIN g}

\* the arrays station.lines of the larger datasets: also the two lines of an
\* interchange station
InterchangeLineLists == LineLists \cup {<<"L1", "L2">>}

\* the long line with every station on its line; the other graphs with each
\* of the line lists
LargeDatasets ==
    {[graph    |-> LongLine(MaxPathLength + 2),
      stations |-> StationsOf(GraphIds(LongLine(MaxPathLength + 2)), <<"L1">>)]}
    \cup {[graph |-> g, stations |-> StationsOf(GraphIds(g), ls)] :
             g \in {LineChanges(MaxTransfers + 3), Dense(DefaultMaxRoutes)}
                       \cup BranchGraphs,
             ls \in InterchangeLineLists}

Datasets == SmallDatasets \cup LargeDatasets

---------------------------------------------------------------------------
(* The state machine *)

\* the ids a caller can pass: those the dataset names
CallIds == GraphIds(graph) \cup DOMAIN stations

\* the explicit maxRoutes arguments
MaxRoutesArgs == {[omitted |-> FALSE, value |-> v] : v \in (-1)..MaxRoutesArg}

NoMaxRoutes == [omitted |-> TRUE, value |-> 0]

\* no function of route-guides.ts has been called
NoGuideCall == [fn |-> "none"]

\* the data of a findRoutes run without paths data
NoPaths == <<>>

\* no function of the recent-routes store has been called
NoStoreCall == [op |-> "none"]

\* the store as it is created (routes: []), its functions not called
StoreUntouched ==
    /\ routes = <<>>
    /\ now = 0
    /\ storeCall = NoStoreCall
    /\ storeCalls = 0

Init ==
    /\ \E d \in Datasets : graph = d.graph /\ stations = d.stations
    /\ pc = "idle"
    /\ call = [from |-> "", to |-> "", maxRoutes |-> NoMaxRoutes]
    /\ result = <<>>
    /\ earlier = <<>>
    /\ paths = NoPaths
    /\ guideCall = NoGuideCall
    /\ guideResult = ""
    /\ StoreUntouched

\* the effect of a call findRoutes(graph, stations, from, to, maxRoutes);
\* allRoutes and the state of the search are locals of the call
Call(from, to, arg) ==
    /\ call' = [from |-> from, to |-> to, maxRoutes |-> arg]
    /\ result' = findRoutes(graph, stations, from, to, arg)
    /\ pc' = "returned"
    /\ graph' = GraphAfter(graph, stations, from, to)
    /\ UNCHANGED <<stations, paths, guideCall, guideResult>>
    /\ UNCHANGED storeVars

\* the first call on the dataset
FindRoutes(from, to, arg) ==
    /\ pc = "idle"
    /\ Call(from, to, arg)
    /\ UNCHANGED earlier

\* findRoutes(graph, stations, from, to)
FindRoutesDefault(from, to) == FindRoutes(from, to, NoMaxRoutes)

\* a further call on the same dataset, after the call before has returned
FindRoutesAgain(from, to) ==
    /\ pc = "returned"
    /\ Len(earlier) + 1 < MaxCalls
    /\ Call(from, to, NoMaxRoutes)
    /\ earlier' = Append(earlier, [call |-> call, result |-> result])

Next ==
    \/ \E from \in CallIds, to \in CallIds, arg \in MaxRoutesArgs : FindRoutes(from, to, arg)
    \/ \E from \in CallIds, to \in CallIds : FindRoutesDefault(from, to)

Spec == Init /\ [][Next]_vars

\* the datasets of the repeated calls: three stations, each linked to the
\* other two, with each of the line lists
RepeatDatasets ==
    {[graph |-> Dense(3), stations |-> StationsOf(GraphIds(Dense(3)), ls)] : ls \in LineLists}

InitRepeat ==
    /\ \E d \in RepeatDatasets : graph = d.graph /\ stations = d.stations
    /\ pc = "idle"
    /\ call = [from |-> "", to |-> "", maxRoutes |-> NoMaxRoutes]
    /\ result = <<>>
    /\ earlier = <<>>
    /\ paths = NoPaths
    /\ guideCall = NoGuideCall
    /\ guideResult = ""
    /\ StoreUntouched

NextRepeat ==
    \/ \E from \in CallIds, to \in CallIds : FindRoutesDefault(from, to)
    \/ \E from \in CallIds, to \in CallIds : FindRoutesAgain(from, to)

SpecRepeat == InitRepeat /\ [][NextRepeat]_vars

\* a station with two edges to one other station, on the two lines in either
\* order, and an edge onwards
ParallelGraphs ==
    {[a |-> <<[to |-> "b", line |-> l[1]], [to |-> "b", line |-> l[2]]>>,
      b |-> <<[to |-> "c", line |-> l[3]]>>] :
        l \in {x \in [1..3 -> LineIds] : x[1] # x[2]}}

\* the datasets in which routes rank equal or are found more than once: the
\* dense graph, the branches and the diamonds with each of the line lists,
\* the parallel edges also with a station without record
TieDatasets ==
    {[graph |-> g, stations |-> StationsOf(GraphIds(g), ls)] :
         g \in {Dense(DefaultMaxRoutes)} \cup BranchGraphs \cup DiamondGraphs,
         ls \in InterchangeLineLists}
    \cup UNION {{[graph |-> g, stations |-> st] : st \in StationMaps(GraphIds(g))} :
                    g \in ParallelGraphs}

InitTies ==
    /\ \E d \in TieDatasets : graph = d.graph /\ stations = d.stations
    /\ pc = "idle"
    /\ call = [from |-> "", to |-> "", maxRoutes |-> NoMaxRoutes]
    /\ result = <<>>
    /\ earlier = <<>>
    /\ paths = NoPaths
    /\ guideCall = NoGuideCall
    /\ guideResult = ""
    /\ StoreUntouched

SpecTies == InitTies /\ [][Next]_vars

---------------------------------------------------------------------------
(* The state machine of route-guides.ts *)

\* the arrays Path.stations: the stations of SmallStations, each at most once,
\* in any order
StationLists ==
    {s \in UNION {[1..n -> Range(SmallStations)] : n \in 0..Len(SmallStations)} :
        \A i, j \in 1..Len(s) : i # j => s[i] # s[j]}

\* the arrays of at most k paths; the k-th path of a line runs from terminal
\* "fk" to terminal "tk"
RECURSIVE PathLists(_)
PathLists(k) ==
    IF k = 0 THEN {<<>>}
    ELSE LET shorter == PathLists(k - 1)
         IN  shorter \cup
                 {Append(ps, [id |-> Id("p", k), from |-> Id("f", k), to |-> Id("t", k),
                              stations |-> s]) :
                      ps \in {x \in shorter : Len(x) = k - 1}, s \in StationLists}

\* the paths data: line "L1" with each of the path arrays, line "L2" without
\* entry or with one path through all stations
PathsMaps ==
    {("L1" :> [paths |-> ps]) : ps \in PathLists(MaxPaths)}
    \cup {("L1" :> [paths |-> ps])
              @@ ("L2" :> [paths |-> <<[id |-> "q", from |-> "f0", to |-> "t0",
                                        stations |-> SmallStations]>>]) :
              ps \in PathLists(MaxPaths)}

\* the line ids and station ids a caller passes: those of the data and one
\* that the data does not have
GuideLineIds == LineIds \cup {"L3"}

GuideStationIds == Range(SmallStations) \cup {"x"}

InitTerminal ==
    /\ paths \in PathsMaps
    /\ guideCall = NoGuideCall
    /\ guideResult = ""
    /\ graph = <<>>
    /\ stations = <<>>
    /\ pc = "idle"
    /\ call = [from |-> "", to |-> "", maxRoutes |-> NoMaxRoutes]
    /\ result = <<>>
    /\ earlier = <<>>
    /\ StoreUntouched

\* getLineTerminal(line, startStationId, nextStationId)
GetLineTerminal(line, startStationId, nextStationId) ==
    /\ guideCall' = [fn |-> "getLineTerminal", line |-> line,
                     startStationId |-> startStationId, nextStationId |-> nextStationId]
    /\ guideResult' = getLineTerminal(paths, line, startStationId, nextStationId)
    /\ UNCHANGED <<paths, graph, stations, pc, call, result, earlier>>
    /\ UNCHANGED storeVars

\* the function reads the constant paths and its arguments only, so a
\* behaviour holds one call
NextTerminal ==
    /\ guideCall = NoGuideCall
    /\ \E line \in GuideLineIds, startStationId \in GuideStationIds,
          nextStationId \in GuideStationIds :
           GetLineTerminal(line, startStationId, nextStationId)

SpecTerminal == InitTerminal /\ [][NextTerminal]_vars

\* the paths data of the guide texts: no line declared, or line "L1" with one
\* path through all stations, line "L2" without entry or with one path
GuidePathsMaps ==
    {NoPaths} \cup {p \in PathsMaps : Len(p["L1"].paths) = 1
                                       /\ Len(p["L1"].paths[1].stations) = Len(SmallStations)}

\* the route steps: the guide functions read stationId, line and transferTo
GuideSteps ==
    {[stationId |-> s, line |-> l, isTransfer |-> tr # Undefined, transferTo |-> tr] :
        s \in Range(SmallStations), l \in LineIds, tr \in {Undefined} \cup LineIds}

\* the routes of at most MaxSteps steps that pass no station twice
GuideRoutes ==
    {[steps |-> s] :
        s \in {x \in UNION {[1..n -> GuideSteps] : n \in 0..MaxSteps} :
                  \A i, j \in 1..Len(x) : i # j => x[i].stationId # x[j].stationId}}

\* the LinesMap arguments: no line, or a name for line "L1"
LinesMaps == {<<>>, ("L1" :> [name |-> [fa |-> "khat-e 1", en |-> "Line 1"]])}

Langs == {"en", "fa"}

\* the tables behind getStationDisplay: no station, or a name for each station
DisplayNames == {<<>>, [s \in Range(SmallStations) |-> "st-" \o s]}

InitGuide ==
    /\ paths \in GuidePathsMaps
    /\ guideCall = NoGuideCall
    /\ guideResult = ""
    /\ graph = <<>>
    /\ stations = <<>>
    /\ pc = "idle"
    /\ call = [from |-> "", to |-> "", maxRoutes |-> NoMaxRoutes]
    /\ result = <<>>
    /\ earlier = <<>>
    /\ StoreUntouched

\* getTransferGuide(route, transferIndex, lines, lang, getStationDisplay), for
\* the index of a step of the route or an index behind the last step
GetTransferGuide(route, transferIndex, lines, lang, names) ==
    /\ guideCall' = [fn |-> "getTransferGuide", route |-> route,
                     transferIndex |-> transferIndex, lines |-> lines, lang |-> lang,
                     names |-> names]
    /\ guideResult' = getTransferGuide(paths, route, transferIndex, lines, lang, names)
    /\ UNCHANGED <<paths, graph, stations, pc, call, result, earlier>>
    /\ UNCHANGED storeVars

\* getFirstStepGuide(route, lines, lang, getStationDisplay)
GetFirstStepGuide(route, lines, lang, names) ==
    /\ guideCall' = [fn |-> "getFirstStepGuide", route |-> route, lines |-> lines,
                     lang |-> lang, names |-> names]
    /\ guideResult' = getFirstStepGuide(paths, route, lines, lang, names)
    /\ UNCHANGED <<paths, graph, stations, pc, call, result, earlier>>
    /\ UNCHANGED storeVars

\* the guide functions read the constant paths and their arguments only, so
\* a behaviour holds one call
NextGuide ==
    /\ guideCall = NoGuideCall
    /\ \E route \in GuideRoutes, lines \in LinesMaps, lang \in Langs,
          names \in DisplayNames :
           \/ \E transferIndex \in 0..MaxSteps :
                  GetTransferGuide(route, transferIndex, lines, lang, names)
           \/ GetFirstStepGuide(route, lines, lang, names)

SpecGuide == InitGuide /\ [][NextGuide]_vars

---------------------------------------------------------------------------
(* The recent-routes store (src/lib/stores/recent-routes.ts) *)

\* slice(0, 9) of the entries is kept behind a new entry
KeptOnAdd == 9

\* Keep last 10: the number of entries the list is meant to hold at most
MaxRecent == 10

\* the template string of the id of a new entry
RouteId(from, to, time) == from \o "-" \o to \o "-" \o ToString(time)

\* the entries are looked up with from and to exchanged
ExistingIndex_Swapped(list, from, to) ==
    LET at == {k \in 1..Len(list) : list[k].from = to /\ list[k].to = from}
    IN  IF at = {} THEN -1 ELSE (CHOOSE k \in at : \A j \in at : k <= j) - 1

\* state.routes.findIndex((r) => r.from === from && r.to === to), 0-based,
\* -1 when no entry has this pair
ExistingIndex(list, from, to) ==
    LET at == {k \in 1..Len(list) : list[k].from = from /\ list[k].to = to}
    IN  IF at = {} THEN -1 ELSE (CHOOSE k \in at : \A j \in at : k <= j) - 1

\* the entry stays where it is
MoveToFront_Stay(list, index) == list

\* const [updated] = list.splice(index, 1); list.unshift(updated)
MoveToFront(list, index) ==
    <<list[index + 1]>> \o SubSeq(list, 1, index) \o SubSeq(list, index + 2, Len(list))

\* a new entry is put before all the entries of the list
addRoute_KeepAll(list, from, to, route, idTime, time) ==
    LET existingIndex == ExistingIndex(list, from, to)
    IN  IF existingIndex # -1
        THEN MoveToFront([list EXCEPT ![existingIndex + 1] =
                              [@ EXCEPT !.count = @ + 1, !.timestamp = idTime,
                                        !.route = route]],
                         existingIndex)
        ELSE <<[id |-> RouteId(from, to, idTime), from |-> from, to |-> to,
                route |-> route, timestamp |-> time, count |-> 1]>> \o list

\* a new entry takes the place of the first entry of the list
addRoute_DropFirst(list, from, to, route, idTime, time) ==
    LET existingIndex == ExistingIndex(list, from, to)
    IN  IF existingIndex # -1
        THEN MoveToFront([list EXCEPT ![existingIndex + 1] =
                              [@ EXCEPT !.count = @ + 1, !.timestamp = idTime,
                                        !.route = route]],
                         existingIndex)
        ELSE <<[id |-> RouteId(from, to, idTime), from |-> from, to |-> to,
                route |-> route, timestamp |-> time, count |-> 1]>>
                 \o Slice(list, Max(Len(list) - KeptOnAdd, 0), Len(list))

\* the updater of addRoute: the new state.routes.  An entry with this pair
\* reads Date.now() once (idTime); a new entry reads it for the id (idTime)
\* and again for the timestamp (time)
addRoute(list, from, to, route, idTime, time) ==
    LET existingIndex == ExistingIndex(list, from, to)
    IN  IF existingIndex # -1
        THEN MoveToFront([list EXCEPT ![existingIndex + 1] =
                              [@ EXCEPT !.count = @ + 1, !.timestamp = idTime,
                                        !.route = route]],
                         existingIndex)
        ELSE <<[id |-> RouteId(from, to, idTime), from |-> from, to |-> to,
                route |-> route, timestamp |-> time, count |-> 1]>>
                 \o Slice(list, 0, KeptOnAdd)

\* the count of the entry is left as it is
incrementCount_CountKept(list, from, to, time) ==
    LET existingIndex == ExistingIndex(list, from, to)
    IN  IF existingIndex # -1
        THEN MoveToFront([list EXCEPT ![existingIndex + 1] =
                              [@ EXCEPT !.timestamp = time]],
                         existingIndex)
        ELSE list

\* the updater of incrementCount: the new state.routes
incrementCount(list, from, to, time) ==
    LET existingIndex == ExistingIndex(list, from, to)
    IN  IF existingIndex # -1
        THEN MoveToFront([list EXCEPT ![existingIndex + 1] =
                              [@ EXCEPT !.count = @ + 1, !.timestamp = time]],
                         existingIndex)
        ELSE list

\* the entries behind an entry with the id are removed with it
removeRoute_Truncate(list, id) ==
    LET at == {k \in 1..Len(list) : list[k].id = id}
    IN  IF at = {} THEN list
        ELSE SubSeq(list, 1, (CHOOSE k \in at : \A j \in at : k <= j) - 1)

\* state.routes.filter((r) => r.id !== id)
removeRoute(list, id) == SelectSeq(list, LAMBDA r : r.id # id)

\* set({ routes: [] })
clearRoutes == <<>>

\* the station ids of the calls
RecentStations == {"a", "b"}

\* the RouteResult arguments: two routes of the pair, as findRoutes ranks them
StoredRoutes ==
    {[steps |-> <<>>, totalStations |-> n, totalTransfers |-> 0, lines |-> <<"L1">>] :
        n \in 2..3}

\* the pair of the k-th addRoute call behind the starting list
StoredPair(k) ==
    IF k = 1 THEN [from |-> "a", to |-> "b"]
    ELSE IF k = 2 THEN [from |-> "b", to |-> "a"]
    ELSE [from |-> Id("s", k), to |-> "z"]

\* state.routes after addRoute was called on the empty list for the first n
\* pairs, one call per millisecond
RECURSIVE Stored(_)
Stored(n) ==
    IF n = 0 THEN <<>>
    ELSE addRoute(Stored(n - 1), StoredPair(n).from, StoredPair(n).to,
                  CHOOSE r \in StoredRoutes : r.totalStations = 2, n, n)

\* the list the persist middleware stored in an earlier visit is the list of
\* this visit
InitRecent ==
    /\ \E n \in 0..MaxStored : routes = Stored(n) /\ now = n
    /\ storeCall = NoStoreCall
    /\ storeCalls = 0
    /\ graph = <<>>
    /\ stations = <<>>
    /\ pc = "idle"
    /\ call = [from |-> "", to |-> "", maxRoutes |-> NoMaxRoutes]
    /\ result = <<>>
    /\ earlier = <<>>
    /\ paths = NoPaths
    /\ guideCall = NoGuideCall
    /\ guideResult = ""

\* what a call of the store leaves alone
FindAndGuideUnchanged ==
    UNCHANGED <<graph, stations, pc, call, result, earlier, paths, guideCall, guideResult>>

\* the values Date.now() can return after it returned time
Later(time) == {time, time + 1}

\* addRoute(from, to, route)
AddRoute(from, to, route) ==
    /\ \E idTime \in Later(now) :
          \E time \in (IF ExistingIndex(routes, from, to) # -1 THEN {idTime}
                       ELSE Later(idTime)) :
             /\ routes' = addRoute(routes, from, to, route, idTime, time)
             /\ now' = time
    /\ storeCall' = [op |-> "addRoute", from |-> from, to |-> to, route |-> route,
                     id |-> "", before |-> routes]
    /\ storeCalls' = storeCalls + 1
    /\ FindAndGuideUnchanged

\* incrementCount(from, to); Date.now() is read for an entry that exists
IncrementCount(from, to) ==
    /\ \E time \in (IF ExistingIndex(routes, from, to) # -1 THEN Later(now) ELSE {now}) :
          /\ routes' = incrementCount(routes, from, to, time)
          /\ now' = time
    /\ storeCall' = [op |-> "incrementCount", from |-> from, to |-> to, route |-> "",
                     id |-> "", before |-> routes]
    /\ storeCalls' = storeCalls + 1
    /\ FindAndGuideUnchanged

\* removeRoute(id)
RemoveRoute(id) ==
    /\ routes' = removeRoute(routes, id)
    /\ storeCall' = [op |-> "removeRoute", from |-> "", to |-> "", route |-> "",
                     id |-> id, before |-> routes]
    /\ storeCalls' = storeCalls + 1
    /\ UNCHANGED now
    /\ FindAndGuideUnchanged

\* clearRoutes()
ClearRoutes ==
    /\ routes' = clearRoutes
    /\ storeCall' = [op |-> "clearRoutes", from |-> "", to |-> "", route |-> "",
                     id |-> "", before |-> routes]
    /\ storeCalls' = storeCalls + 1
    /\ UNCHANGED now
    /\ FindAndGuideUnchanged

\* the ids removeRoute is called with: the id of an entry, or the id of an
\* entry that is in the list no more
RemoveIds == {routes[k].id : k \in 1..Len(routes)} \cup {RouteId("a", "b", 0)}

NextRecent ==
    /\ storeCalls < MaxStoreCalls
    /\ \/ \E from \in RecentStations, to \in RecentStations, route \in StoredRoutes :
             AddRoute(from, to, route)
       \/ \E from \in RecentStations, to \in RecentStations : IncrementCount(from, to)
       \/ \E id \in RemoveIds : RemoveRoute(id)
       \/ ClearRoutes

SpecRecent == InitRecent /\ [][NextRecent]_vars

---------------------------------------------------------------------------
(* Properties of findRoutes *)

Returned == pc = "returned"

\* the station ids of the steps of a route, in order
StationIdsOf(route) == [i \in 1..Len(route.steps) |-> route.steps[i].stationId]

\* the routes of the last call before the slice, and as the search pushed them
Ranked == RankedRoutes(graph, stations, call.from, call.to)

Pushed == AllRoutes(graph, stations, call.from, call.to)

\* C1: findRoutes(graph, stations, X, X, maxRoutes) returns the empty list,
\* whether or not X is in stations or in the graph.
C1_NoSelfRoute == (Returned /\ call.from = call.to) => result = <<>>

\* a call with from = to for a station that has a record and outgoing edges
C1_Witness ==
    /\ Returned
    /\ call.from = call.to
    /\ call.from \in DOMAIN graph
    /\ HasStation(stations, call.from)
    /\ result = <<>>

\* C2: consecutive results a, b have a.totalTransfers < b.totalTransfers, or
\* equal totalTransfers and a.totalStations <= b.totalStations.
C2_SortOrder ==
    Returned =>
        \A i \in 1..(Len(result) - 1) :
            \/ result[i].totalTransfers < result[i + 1].totalTransfers
            \/ /\ result[i].totalTransfers = result[i + 1].totalTransfers
               /\ result[i].totalStations <= result[i + 1].totalStations

\* two routes are returned, the search found them in the other order, and the
\* one with fewer transfers has more stations
C2_Witness ==
    /\ Returned
    /\ Len(result) = 2
    /\ Len(Pushed) = 2
    /\ result[1] = Pushed[2]
    /\ result[2] = Pushed[1]
    /\ result[1].totalTransfers < result[2].totalTransfers
    /\ result[1].totalStations > result[2].totalStations

\* C3 as stated: at most maxRoutes routes for any maxRoutes argument, 0 and
\* negative integers included, and at most 5 when maxRoutes is omitted.
C3_AtMostMaxRoutes_AnyArgument ==
    Returned =>
        Len(result) <= (IF call.maxRoutes.omitted THEN 5 ELSE call.maxRoutes.value)

\* C3 as amended: at most maxRoutes routes for a maxRoutes >= 0, at most 5 when
\* maxRoutes is omitted; for a negative maxRoutes the routes returned are the
\* ranked routes without the last -maxRoutes of them.
C3_AtMostMaxRoutes ==
    Returned =>
        /\ call.maxRoutes.omitted => Len(result) <= 5
        /\ (~call.maxRoutes.omitted /\ call.maxRoutes.value >= 0) =>
               Len(result) <= call.maxRoutes.value
        /\ (~call.maxRoutes.omitted /\ call.maxRoutes.value < 0
                /\ call.from # call.to) =>
               LET ranked == Ranked
               IN  /\ Len(result) = Max(Len(ranked) + call.maxRoutes.value, 0)
                   /\ result = SubSeq(ranked, 1, Len(result))

\* more routes are ranked than the default lets through
C3_Witness ==
    /\ Returned
    /\ call.maxRoutes.omitted
    /\ call.from # call.to
    /\ Len(Ranked) > 5
    /\ Len(result) = 5

\* C4: the stationIds of the steps of a returned route are pairwise distinct.
C4_SimplePath ==
    Returned =>
        \A r \in 1..Len(result) :
            \A i, j \in 1..Len(result[r].steps) :
                i # j => result[r].steps[i].stationId # result[r].steps[j].stationId

\* a returned route passes a station that has an edge back to an earlier
\* station of the route
C4_Witness ==
    /\ Returned
    /\ \E r \in 1..Len(result) :
          \E i, j \in 1..Len(result[r].steps) :
              /\ i < j
              /\ j < Len(result[r].steps)
              /\ \E e \in Range(EdgesOf(graph, result[r].steps[j].stationId)) :
                    e.to = result[r].steps[i].stationId

\* C5: no two returned routes have the same sequence of step stationIds.
C5_NoDuplicateRoutes ==
    Returned =>
        \A i, j \in 1..Len(result) :
            i # j => StationIdsOf(result[i]) # StationIdsOf(result[j])

\* the search pushed the same station sequence twice (parallel edges) and the
\* call returns it
C5_Witness ==
    /\ Returned
    /\ Len(result) > 0
    /\ \E i, j \in 1..Len(Pushed) :
          /\ i < j
          /\ StationIdsOf(Pushed[i]) = StationIdsOf(Pushed[j])
          /\ \E r \in 1..Len(result) : StationIdsOf(result[r]) = StationIdsOf(Pushed[i])

\* the first step of the route whose line is l (0 when there is none)
FirstStepOnLine(route, l) ==
    FirstIndex([i \in 1..Len(route.steps) |-> route.steps[i].line], l)

\* C6: totalTransfers = lines.length - 1, and lines holds the line ids of the
\* steps' line fields, each once, in order of first appearance (the empty
\* string of a step without a line is no line id).
C6_LinesOfSteps ==
    Returned =>
        \A r \in 1..Len(result) :
            LET route == result[r]
            IN  /\ route.totalTransfers = Len(route.lines) - 1
                /\ Range(route.lines)
                       = {route.steps[i].line : i \in 1..Len(route.steps)} \ {""}
                /\ \A a, b \in 1..Len(route.lines) :
                       a < b => FirstStepOnLine(route, route.lines[a])
                                    < FirstStepOnLine(route, route.lines[b])

\* a returned route rides a line, leaves it and rides it again
C6_Witness ==
    /\ Returned
    /\ \E r \in 1..Len(result) :
          /\ Len(result[r].lines) = 2
          /\ \E i, j, k \in 1..Len(result[r].steps) :
                /\ i < j /\ j < k
                /\ result[r].steps[i].line = result[r].steps[k].line
                /\ result[r].steps[i].line # result[r].steps[j].line

\* C7: totalStations = steps.length for every returned route, also when the
\* origin is absent from the stations map.
C7_TotalStationsIsStepCount ==
    Returned =>
        \A r \in 1..Len(result) : result[r].totalStations = Len(result[r].steps)

\* C8: every returned route starts at the origin and ends at the destination.
C8_FromOriginToDestination ==
    Returned =>
        \A r \in 1..Len(result) :
            /\ Len(result[r].steps) > 0
            /\ result[r].steps[1].stationId = call.from
            /\ Last(result[r].steps).stationId = call.to

\* C9: each step after the first is reached from the previous step by an edge
\* of the graph with the step's station as `to` and the step's line as `line`,
\* and that edge is the one the search followed to reach the station.
C9_StepsFollowTheEdgesSearched ==
    Returned =>
        \A r \in 1..Len(result) :
            \A i \in 2..Len(result[r].steps) :
                LET step == result[r].steps[i]
                    prev == result[r].steps[i - 1]
                IN  /\ [to |-> step.stationId, line |-> step.line]
                           \in Range(EdgesOf(graph, prev.stationId))
                    /\ step.line = step.via

\* the pairs <<station, line ridden into it, line changes so far>> that at
\* most h edges of the graph reach from the origin, through stations that
\* have a record and with at most MaxTransfers line changes
RECURSIVE ReachedWithin(_)
ReachedWithin(h) ==
    IF h = 0 THEN {<<call.from, "", 0>>}
    ELSE LET nearer == ReachedWithin(h - 1)
             next   == UNION {{<<e.to, e.line,
                                 IF p[2] # "" /\ e.line # p[2] THEN p[3] + 1 ELSE p[3]>> :
                                   e \in Range(EdgesOf(graph, p[1]))} : p \in nearer}
         IN  nearer \cup {n \in next : HasStation(stations, n[1]) /\ n[3] <= MaxTransfers}

\* a sequence of graph edges connects origin to destination within the search
\* bounds: at most 30 hops and at most 4 transfers
ConnectedWithinBounds == \E n \in ReachedWithin(MaxPathLength) : n[1] = call.to

\* C10: when no sequence of graph edges connects origin to destination
\* within the search bounds (30 hops, 4 transfers), findRoutes returns the
\* empty list.
C10_EmptyWhenNotConnected ==
    (Returned /\ ~ConnectedWithinBounds) => result = <<>>

\* C12: the first step's line is the line of the edge used to leave the
\* origin towards the second step (the origin's first listed line is used only
\* when there is no such edge), so the first step's line equals the second
\* step's line.
C12_FirstStepOnDepartureLine ==
    Returned =>
        \A r \in 1..Len(result) :
            LET steps == result[r].steps
            IN  (Len(steps) >= 2 /\ steps[1].stationId = call.from) =>
                    /\ steps[1].line = steps[2].via
                    /\ steps[1].line = steps[2].line

\* C13: the first step has isTransfer = false; a later step has isTransfer =
\* true exactly when its line differs from the previous step's line; and
\* transferTo is set, to the step's own line, exactly on the steps with
\* isTransfer = true.
C13_TransferFlags ==
    Returned =>
        \A r \in 1..Len(result) :
            LET steps == result[r].steps
            IN  /\ Len(steps) > 0 => ~steps[1].isTransfer
                /\ \A i \in 2..Len(steps) :
                       steps[i].isTransfer <=> steps[i].line # steps[i - 1].line
                /\ \A i \in 1..Len(steps) :
                       /\ steps[i].transferTo # Undefined <=> steps[i].isTransfer
                       /\ steps[i].isTransfer => steps[i].transferTo = steps[i].line

\* the lines of the edges the search followed along a route, in order
EdgeLinesFollowed(route) ==
    SelectSeq([i \in 1..Len(route.steps) |-> route.steps[i].via], LAMBDA l : l # "")

\* the transfer counter of the search when it reached the end of a route: the
\* edges followed onto another line than the one ridden before, the origin's
\* first line being the line ridden at the start
TransferCounter(route) ==
    LET followed == EdgeLinesFollowed(route)
        ridden(i) == IF i = 1 THEN InitialLine(stations, call.from) ELSE followed[i - 1]
    IN  Cardinality({i \in 1..Len(followed) : ridden(i) # "" /\ followed[i] # ridden(i)})

\* C14: no returned route has more than 30 stations and none was reached with
\* a transfer counter above 4, so a pair connected only by paths beyond these
\* bounds yields no candidate.
C14_RoutesWithinBounds ==
    Returned =>
        \A r \in 1..Len(result) :
            /\ result[r].totalStations <= MaxPathLength
            /\ TransferCounter(result[r]) <= MaxTransfers

\* the simple paths of at most h stations that start at the origin and stay
\* within the transfer bound, each as <<path, line ridden, line changes>>; all
\* their stations have a record, and a path that has reached the destination
\* is not extended
RECURSIVE SimplePathsWithin(_)
SimplePathsWithin(h) ==
    IF h <= 1
    THEN IF HasStation(stations, call.from)
         THEN {<<(<<call.from>>), InitialLine(stations, call.from), 0>>}
         ELSE {}
    ELSE LET shorter == SimplePathsWithin(h - 1)
             longest == {w \in shorter : Len(w[1]) = h - 1 /\ Last(w[1]) # call.to}
             longer  == UNION {{<<Append(w[1], e.to), e.line,
                                  IF w[2] # "" /\ e.line # w[2] THEN w[3] + 1 ELSE w[3]>> :
                                    e \in {x \in Range(EdgesOf(graph, Last(w[1]))) :
                                              /\ x.to \notin Range(w[1])
                                              /\ HasStation(stations, x.to)}} :
                               w \in longest}
         IN  shorter \cup {w \in longer : w[3] <= MaxTransfers}

\* the station sequences of the simple paths from origin to destination that
\* stay within the length and transfer bounds
PathsWithinBounds ==
    {w[1] : w \in {x \in SimplePathsWithin(MaxPathLength) : Last(x[1]) = call.to}}

\* the sort key of a route: totalTransfers, then totalStations
KeyLeq(a, b) ==
    \/ a.totalTransfers < b.totalTransfers
    \/ a.totalTransfers = b.totalTransfers /\ a.totalStations <= b.totalStations

\* C15: the result holds the first maxRoutes entries of the list of the
\* routes of all simple paths from origin to destination within the length
\* and transfer bounds, one per station sequence, sorted by totalTransfers
\* then totalStations: as many routes as the list and maxRoutes allow, each
\* the route of one of these paths, no path twice, in sorted order, and no
\* path left out sorts before a route returned.
C15_ExhaustiveWithinBounds ==
    (Returned /\ call.from # call.to /\ MaxRoutesParam(call.maxRoutes) >= 0) =>
        LET within  == PathsWithinBounds
            routeOf == [p \in within |-> BuildRoute(graph, stations, p, [i \in 1..Len(p) |-> ""])]
            ids     == [r \in 1..Len(result) |-> StationIdsOf(result[r])]
        IN  /\ Len(result) = Min(MaxRoutesParam(call.maxRoutes), Cardinality(within))
            /\ \A r \in 1..Len(result) :
                   /\ ids[r] \in within
                   /\ result[r].totalTransfers = routeOf[ids[r]].totalTransfers
                   /\ result[r].totalStations = routeOf[ids[r]].totalStations
                   /\ result[r].lines = routeOf[ids[r]].lines
            /\ \A r, s \in 1..Len(result) : r < s =>
                   ids[r] # ids[s] /\ KeyLeq(result[r], result[s])
            /\ \A p \in within \ Range(ids) :
                   \A r \in 1..Len(result) : KeyLeq(result[r], routeOf[p])

RECURSIVE PathsAvoidingMissing(_)
PathsAvoidingMissing(h) ==
    IF h <= 1 THEN {<<call.from>>}
    ELSE LET shorter == PathsAvoidingMissing(h - 1)
             longest == {p \in shorter : Len(p) = h - 1 /\ Last(p) # call.to}
         IN  shorter \cup
                 UNION {{Append(p, e.to) :
                            e \in {x \in Range(EdgesOf(graph, Last(p))) :
                                      x.to \notin Range(p) /\ HasStation(stations, x.to)}} :
                        p \in longest}

\* C17: an edge whose destination is absent from the stations map is never
\* followed: every step of a returned route is the step of a station that has
\* a record, every station a route passes after the origin has its step, and
\* a route that avoids the missing stations is still returned (here: each
\* path of at most 5 stations, which the bounds cannot cut, unless maxRoutes
\* routes are returned already).
C17_MissingStationsAvoided ==
    (Returned /\ call.from # call.to) =>
        LET steps(r) == result[r].steps
            passed(r) == IF HasStation(stations, call.from)
                         THEN StationIdsOf(result[r])
                         ELSE <<call.from>> \o StationIdsOf(result[r])
        IN  /\ \A r \in 1..Len(result) :
                   /\ \A i \in 1..Len(steps(r)) :
                          /\ HasStation(stations, steps(r)[i].stationId)
                          /\ steps(r)[i].station = stations[steps(r)[i].stationId]
                   /\ Len(passed(r)) = result[r].totalStations
            /\ MaxRoutesParam(call.maxRoutes) >= 0 =>
                   \A p \in PathsAvoidingMissing(MaxTransfers + 1) :
                       Last(p) = call.to =>
                           \/ \E r \in 1..Len(result) : passed(r) = p
                           \/ Len(result) = MaxRoutesParam(call.maxRoutes)

\* a returned route passes a station that has an edge to a station without
\* record
C17_Witness ==
    /\ Returned
    /\ \E r \in 1..Len(result) :
          \E i \in 1..(Len(result[r].steps) - 1) :
              \E e \in Range(EdgesOf(graph, result[r].steps[i].stationId)) :
                  ~HasStation(stations, e.to)

---------------------------------------------------------------------------
(* Repeated calls *)

---------------------------------------------------------------------------
(* Properties of getLineTerminal *)

TerminalReturned == guideCall.fn = "getLineTerminal"

\* the paths declared for the line of the call (none when it has no entry)
DeclaredPaths == IF guideCall.line \in DOMAIN paths THEN paths[guideCall.line].paths ELSE <<>>

\* path k lists both stations of the call
ListsBoth(k) ==
    /\ guideCall.startStationId \in Range(DeclaredPaths[k].stations)
    /\ guideCall.nextStationId \in Range(DeclaredPaths[k].stations)

\* the place of a station in a station list that holds it once
PlaceIn(s, x) == CHOOSE i \in 1..Len(s) : s[i] = x

C19_EmptyOrTerminal ==
    TerminalReturned =>
        IF \E k \in 1..Len(DeclaredPaths) : ListsBoth(k)
        THEN \E k \in 1..Len(DeclaredPaths) :
                 guideResult \in {DeclaredPaths[k].from, DeclaredPaths[k].to}
        ELSE guideResult = ""

\* the line has paths, each lists one of the two stations, none lists both
C19_Witness ==
    /\ TerminalReturned
    /\ Len(DeclaredPaths) >= 2
    /\ \A k \in 1..Len(DeclaredPaths) :
          /\ ~ListsBoth(k)
          /\ \/ guideCall.startStationId \in Range(DeclaredPaths[k].stations)
             \/ guideCall.nextStationId \in Range(DeclaredPaths[k].stations)
    /\ guideResult = ""

---------------------------------------------------------------------------
(* Properties of getTransferGuide *)

TransferGuideReturned == guideCall.fn = "getTransferGuide"

\* C20: the guide is the empty string when the step at stepIndex has no
\* transferTo or is the last step (or stepIndex is behind it); for a step
\* that has transferTo and is followed by another step it is a non-empty
\* instruction built from the name of the transfer station, the name of the
\* transferTo line and the name of the terminal looked up on that line from
\* this step's station to the next step's station.
C20_TransferGuide ==
    TransferGuideReturned =>
        LET steps == guideCall.route.steps
            i     == guideCall.transferIndex + 1
        IN  IF i >= Len(steps) \/ steps[i].transferTo = Undefined
            THEN guideResult = ""
            ELSE LET terminal == getLineTerminal(paths, steps[i].transferTo,
                                                 steps[i].stationId, steps[i + 1].stationId)
                 IN  /\ guideResult # ""
                     /\ guideResult =
                            TransferText(guideCall.lang,
                                         StationDisplay(guideCall.names, steps[i].stationId),
                                         LineName(guideCall.lines, steps[i].transferTo,
                                                  guideCall.lang),
                                         StationDisplay(guideCall.names, terminal))

\* a transfer step followed by another step, on a line whose path lists both
\* stations with the next one first: the guide names the terminal `from`
C20_Witness ==
    /\ TransferGuideReturned
    /\ guideCall.transferIndex + 2 <= Len(guideCall.route.steps)
    /\ LET step == guideCall.route.steps[guideCall.transferIndex + 1]
           next == guideCall.route.steps[guideCall.transferIndex + 2]
       IN  /\ step.transferTo = "L1"
           /\ getLineTerminal(paths, "L1", step.stationId, next.stationId) = "f1"
           /\ guideCall.lang = "en"
           /\ guideCall.lines # <<>>
           /\ guideCall.names = <<>>
           /\ guideResult = "At " \o step.stationId
                                 \o " station, transfer to Line 1 towards f1"

---------------------------------------------------------------------------
(* Properties of getFirstStepGuide and of a terminal that is not found *)

FirstStepGuideReturned == guideCall.fn = "getFirstStepGuide"

\* the largest n such that the first n steps are all on the first step's line
SameLineRun(steps) ==
    CHOOSE n \in 1..Len(steps) :
        /\ \A j \in 1..n : steps[j].line = steps[1].line
        /\ n < Len(steps) => steps[n + 1].line # steps[1].line

\* the terminal the guide call in guideCall looks up: for the first step guide
\* towards the end of the first run of steps on one line, for the transfer
\* guide on the transferTo line towards the next step; "none" for a call that
\* returns before the lookup
TerminalLookedUp ==
    LET steps == guideCall.route.steps
    IN  IF FirstStepGuideReturned
        THEN IF Len(steps) = 0 THEN "none"
             ELSE getLineTerminal(paths, steps[1].line, steps[1].stationId,
                                  steps[SameLineRun(steps)].stationId)
        ELSE LET i == guideCall.transferIndex + 1
             IN  IF i >= Len(steps) \/ steps[i].transferTo = Undefined THEN "none"
                 ELSE getLineTerminal(paths, steps[i].transferTo,
                                      steps[i].stationId, steps[i + 1].stationId)

\* C21: when getLineTerminal finds no matching path and returns the empty
\* string, getFirstStepGuide and getTransferGuide return the empty string too.
C21_MissGivesEmptyGuide ==
    (guideCall # NoGuideCall /\ TerminalLookedUp = "") => guideResult = ""

---------------------------------------------------------------------------
(* Transfers counted and transfers flagged *)

\* the number of steps flagged isTransfer
FlaggedTransfers(route) ==
    Cardinality({k \in 1..Len(route.steps) : route.steps[k].isTransfer})

\* C30: for every route returned by findRoutes, totalTransfers equals the
\* number of steps flagged isTransfer = true, also for a route that leaves a
\* line and later rides the same line again.
C30_TransfersAreFlaggedSteps ==
    Returned =>
        \A i \in 1..Len(result) : result[i].totalTransfers = FlaggedTransfers(result[i])

---------------------------------------------------------------------------
(* The order of routes that rank equal *)

\* the stations the search passed for a returned route: the steps, behind the
\* origin when the origin has no station record and so no step
PathOf(route) ==
    IF HasStation(stations, call.from) THEN StationIdsOf(route)
    ELSE <<call.from>> \o StationIdsOf(route)

\* for each hop of a route the place of the edge followed among the edges of
\* the station it leaves: group 0 for an edge on the line ridden so far (the
\* first line of the origin at the first hop), group 1 for an edge on another
\* line, and the index of the edge in the edge array of the graph
EdgePlaces(route) ==
    LET path     == PathOf(route)
        followed == EdgeLinesFollowed(route)
    IN  [h \in 1..Len(followed) |->
            LET ridden == IF h = 1 THEN InitialLine(stations, call.from) ELSE followed[h - 1]
                edges  == EdgesOf(graph, path[h])
                at     == {k \in 1..Len(edges) : /\ edges[k].to = path[h + 1]
                                                  /\ edges[k].line = followed[h]}
            IN  <<IF followed[h] = ridden THEN 0 ELSE 1,
                  CHOOSE k \in at : \A j \in at : k <= j>>]

\* a search that tries the edges of every station group 0 first and each
\* group in the order of the graph finds route a before route b
FoundBefore(a, b) ==
    LET pa == EdgePlaces(a)
        pb == EdgePlaces(b)
    IN  \E h \in 1..Min(Len(pa), Len(pb)) :
            /\ \A g \in 1..(h - 1) : pa[g] = pb[g]
            /\ \/ pa[h][1] < pb[h][1]
               \/ pa[h][1] = pb[h][1] /\ pa[h][2] < pb[h][2]

\* C25: returned routes with equal totalTransfers and equal totalStations are
\* in the order in which the search found them, the search trying at every
\* station the edges on the line being ridden before the edges on another
\* line and each of the two groups in the order of the graph; of the routes
\* found with one station sequence the first one found is returned.
C25_TiesInSearchOrder ==
    Returned =>
        /\ \A i, j \in 1..Len(result) :
               (/\ i < j
                /\ result[i].totalTransfers = result[j].totalTransfers
                /\ result[i].totalStations = result[j].totalStations)
                   => FoundBefore(result[i], result[j])
        /\ LET pushed == Pushed
           IN  \A i \in 1..Len(result), k \in 1..Len(pushed) :
                   StationIdsOf(pushed[k]) = StationIdsOf(result[i])
                       => ~FoundBefore(pushed[k], result[i])

\* two returned routes rank equal and the first one leaves the origin by the
\* second edge of the origin's edge array, an edge on the origin's line,
\* while the other leaves by the first edge, which is on another line
C25_Witness ==
    /\ Returned
    /\ Len(result) = 2
    /\ result[1].totalTransfers = result[2].totalTransfers
    /\ result[1].totalStations = result[2].totalStations
    /\ EdgePlaces(result[1])[1] = <<0, 2>>
    /\ EdgePlaces(result[2])[1] = <<1, 1>>

---------------------------------------------------------------------------
(* Properties of the recent-routes store *)

\* state.routes before the last call of the store
Before == storeCall.before

\* the last call was addRoute or incrementCount
Touches == storeCall.op \in {"addRoute", "incrementCount"}

\* the entry is the entry of the pair of the last call
OfCallPair(entry) == entry.from = storeCall.from /\ entry.to = storeCall.to

SamePair(x, y) == x.from = y.from /\ x.to = y.to

\* the pair of the last call had an entry before the call
PairWasListed == \E k \in 1..Len(Before) : OfCallPair(Before[k])

\* the entries of list other than the entry of the pair of the last call
Others(list) == SelectSeq(list, LAMBDA r : ~OfCallPair(r))

\* the pairs (from, to) of the entries of a list, in the order of the list
PairsOf(list) == [k \in 1..Len(list) |-> <<list[k].from, list[k].to>>]

\* every two entries of new are entries of old and stand in old in the same
\* order
SameRelativeOrder(old, new) ==
    LET places == [i \in 1..Len(new) |->
                       {m \in 1..Len(old) : SamePair(old[m], new[i])}]
    IN  /\ \A i \in 1..Len(new) : places[i] # {}
        /\ \A i \in 1..Len(new) : \A j \in (i + 1)..Len(new) :
               \E m \in places[i], n \in places[j] : m < n

\* C22: the list never holds more than 10 entries, whatever addRoute,
\* incrementCount, removeRoute and clearRoutes calls were made.
C22_AtMostTenEntries == Len(routes) <= MaxRecent

\* two new pairs were added one after the other to a list of 10 entries
C22_Witness ==
    /\ storeCalls = 2
    /\ storeCall.op = "addRoute"
    /\ Len(Before) = MaxRecent
    /\ ~PairWasListed
    /\ Len(routes) = MaxRecent
    /\ routes[2].count = 1
    /\ routes[2].timestamp > routes[3].timestamp

\* C23: after addRoute(from, to, route) the entry of (from, to) is at index 0
\* and holds that route; after incrementCount(from, to) for a pair of the
\* list its entry is at index 0; the other entries keep their relative order.
C23_MostRecentFirst ==
    (Touches /\ (storeCall.op = "addRoute" \/ PairWasListed)) =>
        /\ Len(routes) > 0
        /\ OfCallPair(routes[1])
        /\ storeCall.op = "addRoute" => routes[1].route = storeCall.route
        /\ \A k \in 2..Len(routes) : ~OfCallPair(routes[k])
        /\ SameRelativeOrder(Others(Before), Others(routes))

\* incrementCount for the pair of the last of 10 entries: the entry is first
\* and the nine others follow in their order
C23_Witness ==
    /\ storeCall.op = "incrementCount"
    /\ Len(Before) = MaxRecent
    /\ OfCallPair(Before[MaxRecent])
    /\ OfCallPair(routes[1])
    /\ PairsOf(Tail(routes)) = PairsOf(SubSeq(Before, 1, MaxRecent - 1))

\* C24: no two entries of the list have the same from and the same to; (A, B)
\* and (B, A) are different keys.
C24_KeyedByPair ==
    \A i, j \in 1..Len(routes) : SamePair(routes[i], routes[j]) => i = j

\* addRoute was called for (a, b), which had an entry, and the list holds an
\* entry for (a, b) and an entry for (b, a)
C24_Witness ==
    /\ storeCall.op = "addRoute"
    /\ PairWasListed
    /\ storeCall.from = "a" /\ storeCall.to = "b"
    /\ routes[1].count = 2
    /\ \E k \in 2..Len(routes) : routes[k].from = "b" /\ routes[k].to = "a"

\* C27: addRoute of a new pair creates its entry with count 1; addRoute and
\* incrementCount for a pair of the list add exactly 1 to the count of its
\* entry; no call changes the count of another entry.  So the count is 1 plus
\* the number of these calls for the pair since the entry was created.
C27_CountIsUses ==
    storeCall.op # "none" =>
        \A k \in 1..Len(routes) :
            LET was == {m \in 1..Len(Before) : SamePair(Before[m], routes[k])}
            IN  IF was = {}
                THEN /\ storeCall.op = "addRoute"
                     /\ OfCallPair(routes[k])
                     /\ routes[k].count = 1
                ELSE \A m \in was :
                        routes[k].count =
                            Before[m].count
                                + (IF Touches /\ OfCallPair(routes[k]) THEN 1 ELSE 0)

\* an entry created with count 1 was used by addRoute and then by
\* incrementCount: its count is 3, the counts of the others are 1
C27_Witness ==
    /\ storeCalls = 2
    /\ storeCall.op = "incrementCount"
    /\ Len(routes) > 2
    /\ routes[1].count = 3
    /\ \A k \in 2..Len(routes) : routes[k].count = 1

\* C28: incrementCount for a pair that is not in the list leaves the list as
\* it is; removeRoute(id) removes the entries with that id and leaves the
\* other entries as they are and in their order.
C28_IncrementAndRemoveFrame ==
    /\ (storeCall.op = "incrementCount" /\ ~PairWasListed) => routes = Before
    /\ storeCall.op = "removeRoute" =>
          LET kept == {k \in 1..Len(Before) : Before[k].id # storeCall.id}
          IN  /\ Len(routes) = Cardinality(kept)
              /\ \A k \in kept : routes[Cardinality({j \in kept : j <= k})] = Before[k]

\* removeRoute with the id of an entry that is neither the first nor the
\* last of the list
C28_Witness ==
    /\ storeCall.op = "removeRoute"
    /\ \E k \in 2..(Len(Before) - 1) : Before[k].id = storeCall.id
    /\ Len(routes) = Len(Before) - 1
    /\ routes[1] = Before[1]
    /\ Last(routes) = Last(Before)

\* C29: addRoute of a new pair to a list of 10 entries drops exactly the last
\* entry and the other nine follow the new entry in their order; addRoute for
\* a pair of the list drops no entry.
C29_DropsLeastRecent ==
    storeCall.op = "addRoute" =>
        IF PairWasListed
        THEN /\ Len(routes) = Len(Before)
             /\ \A m \in 1..Len(Before) :
                   \E k \in 1..Len(routes) : SamePair(routes[k], Before[m])
        ELSE Len(Before) = MaxRecent =>
                /\ Len(routes) = MaxRecent
                /\ Tail(routes) = SubSeq(Before, 1, MaxRecent - 1)

\* a new pair is added to 10 entries: the entry of (a, b), the last one, is
\* gone and the entry that was first is second
C29_Witness ==
    /\ storeCall.op = "addRoute"
    /\ ~PairWasListed
    /\ Len(Before) = MaxRecent
    /\ Before[MaxRecent].from = "a" /\ Before[MaxRecent].to = "b"
    /\ \A k \in 1..Len(routes) : ~SamePair(routes[k], Before[MaxRecent])
    /\ routes[2] = Before[1]

====
